---- MODULE Spec2Model ----
(***************************************************************************)
(* A model of ETL-daily/ETL_pipeline.py: one run of the daily pipeline.    *)
(* The script is straight-line module-level code, so the state is the      *)
(* module's global variables plus the position of control (pc), the store  *)
(* behind the psycopg2 connection, and a log of the calls the run makes.   *)
(* A second specification, SpecConcurrent, takes two runs at once at their *)
(* store calls, for what is said about concurrent runs.                    *)
(***************************************************************************)
EXTENDS Integers, Sequences, FiniteSets, TLC

\* Longest 'articles' list the discovery response carries in the model.
MaxArticles == 2

VARIABLES
    pc,               \* position of control in the script
    db_url,           \* os.getenv('DATABASE_URL'): "set" or "unset"
    conn,             \* "None", "open" or "closed"
    cur,              \* "None", "open" or "closed"
    articles,         \* data['articles'] of the discovery response
    idx,              \* position of the for loop in articles (0 before it)
    title, url, source,        \* module-level names bound in the loop body
    article_body, class_res,   \* results of get_article_text / classify_text
    processed_count, inserted_count,
    store,            \* rows of public.articles that are committed
    txRows,           \* rows written by the run's open transaction
    txFailed,         \* the transaction is in PostgreSQL's aborted state
    uncaught,         \* an exception is propagating out of the script
    exitCode,         \* <<>> while running, then <<the process exit code>>
    log,              \* the calls made so far, in order
    runs,             \* two runs at once: the store side of each process
    table             \* two runs at once: the committed rows they share

vars == <<pc, db_url, conn, cur, articles, idx, title, url, source,
          article_body, class_res, processed_count, inserted_count,
          store, txRows, txFailed, uncaught, exitCode, log, runs, table>>

-----------------------------------------------------------------------------
(* Python values *)

None == [type |-> "NoneType"]
Str(s) == [type |-> "str", v |-> s]
Dict(d) == [type |-> "dict", v |-> d]

\* A name that was never assigned: reading it raises NameError.
Unbound == "<unbound>"

(* str.split() and ' '.join() on strings held as sequences of characters *)

Whitespace == {" ", "\n"}

RECURSIVE join(_, _)
join(sep, parts) ==
    IF parts = <<>> THEN <<>>
    ELSE IF Len(parts) = 1 THEN parts[1]
    ELSE parts[1] \o sep \o join(sep, Tail(parts))

\* split(s): the maximal runs of non-whitespace characters of s, in order.
RECURSIVE splitFrom(_, _, _)
splitFrom(s, word, acc) ==
    IF s = <<>> THEN (IF word = <<>> THEN acc ELSE Append(acc, word))
    ELSE IF Head(s) \in Whitespace
         THEN splitFrom(Tail(s), <<>>, IF word = <<>> THEN acc ELSE Append(acc, word))
         ELSE splitFrom(Tail(s), Append(word, Head(s)), acc)

split(s) == splitFrom(s, <<>>, <<>>)

(* json.dumps on the values classify_text can return *)

\* str(x) in the place of json.dumps(x).
json_dumps_str(x) ==
    CASE x.type = "NoneType" -> "None"
      [] x.type = "str"      -> x.v
      [] x.type = "dict"     -> "{'label': '" \o x.v \o "'}"

json_dumps(x) ==
    CASE x.type = "NoneType" -> "null"
      [] x.type = "str"      -> "\"" \o x.v \o "\""
      [] x.type = "dict"     -> "{\"label\": \"" \o x.v \o "\"}"

-----------------------------------------------------------------------------
(* The inputs of a run *)

Urls == {"u1", "u2"}
Keys == {"title", "url", "domain"}

FullRef(u) ==
    [k \in Keys |-> CASE k = "title" -> "headline"
                      [] k = "url" -> u
                      [] k = "domain" -> "cnn.com"]

Drop(r, key) == [k \in (DOMAIN r) \ {key} |-> r[k]]

\* The entries of data['articles']: complete refs and refs missing one key.
ArticleRefs ==
    {FullRef(u) : u \in Urls} \cup
    {Drop(FullRef(u), k) : u \in Urls, k \in Keys}

ArticleLists == UNION {[1..n -> ArticleRefs] : n \in 0..MaxArticles}

\* The <p> elements of a scraped page, each the characters of its get_text().
Pages == { <<>>, << <<" ", "a", " ", " ">>, <<"b", "\n">> >> }

\* The bodies the classification service can send with status 200.
ClassifyBodies == {None, Str("null"), Dict("threat")}

\* What the GDELT request can answer: a status and a body, the body being
\* empty, not JSON, a JSON number, a JSON object without 'articles', or a JSON
\* object whose 'articles' is a list of refs.
DiscoveryResponses ==
    {[status |-> 500, body |-> "html", articles |-> <<>>],
     [status |-> 200, body |-> "empty", articles |-> <<>>],
     [status |-> 200, body |-> "html", articles |-> <<>>],
     [status |-> 200, body |-> "number", articles |-> <<>>],
     [status |-> 200, body |-> "object", articles |-> <<>>]} \cup
    {[status |-> 200, body |-> "articles", articles |-> a] : a \in ArticleLists}

\* What fetching an article page can answer.
ScrapeResponses ==
    {[status |-> 0, paragraphs |-> <<>>],        \* requests.get raised
     [status |-> 404, paragraphs |-> <<>>]} \cup
    {[status |-> 200, paragraphs |-> p] : p \in Pages}

\* What the classification service can answer.
ClassifyResponses ==
    {[status |-> 0, json |-> None],              \* requests.post raised
     [status |-> 500, json |-> None]} \cup
    {[status |-> 200, json |-> j] : j \in ClassifyBodies}

\* A row of public.articles already in the store when the run starts.
OldRow(u) ==
    [source_domain |-> "cnn.com", title |-> "old", url |-> u,
     scraped_text |-> Str(<<"o">>), classification_json |-> "{\"label\": \"old\"}"]

-----------------------------------------------------------------------------
(* The helper functions of the script *)

\* get_article_text, lines 48-71, on the answer of requests.get.
get_article_text(response) ==
    IF response.status = 200
    THEN LET all_text == response.paragraphs
             article_text == join(<<" ">>, all_text)
         IN  Str(join(<<" ">>, split(article_text)))
    ELSE None

\* classify_text, lines 29-46, on the answer of requests.post.
classify_text(response) ==
    IF response.status = 200 THEN response.json ELSE None

\* insert_query with 'ON CONFLICT (url) DO UPDATE': the row of that url is
\* overwritten.
insert_query_update(rows, data_tuple) ==
    {r \in rows : r.url # data_tuple.url} \cup {data_tuple}

\* insert_query, lines 110-114, run against the rows the transaction sees:
\* the rows after the statement.
insert_query(rows, data_tuple) ==
    IF \E r \in rows : r.url = data_tuple.url THEN rows ELSE rows \cup {data_tuple}

\* cur.rowcount after insert_query.
rowcount(rows, data_tuple) ==
    IF \E r \in rows : r.url = data_tuple.url THEN 0 ELSE 1

-----------------------------------------------------------------------------
(* The log of calls *)

Event(op, i, res, val) == [op |-> op, i |-> i, res |-> res, val |-> val]

Ops(op) == {k \in 1..Len(log) : log[k].op = op}
Count(op) == Cardinality(Ops(op))

-----------------------------------------------------------------------------
\* The state of one run before its first statement.
InitRun ==
    /\ pc = "get_db_connection"
    /\ db_url \in {"set", "unset"}
    /\ conn = "None"
    /\ cur = "None"
    /\ articles = <<>>
    /\ idx = 0
    /\ title = Unbound
    /\ url = Unbound
    /\ source = Unbound
    /\ article_body = None
    /\ class_res = None
    /\ processed_count = 0
    /\ inserted_count = 0
    /\ store \in {{}, {OldRow("u1")}}
    /\ txRows = {}
    /\ txFailed = FALSE
    /\ uncaught = FALSE
    /\ exitCode = <<>>
    /\ log = <<>>

\* A single run: the two-run part of the state is not used.
Init ==
    /\ InitRun
    /\ runs = <<>>
    /\ table = {}

-----------------------------------------------------------------------------
(* The script, one action per step *)

\* Lines 16-26 and 117-118: conn = get_db_connection(); cur = None.
get_db_connection ==
    /\ pc = "get_db_connection"
    /\ \/ /\ db_url = "unset"
          /\ conn' = "None"
          /\ log' = log
       \/ /\ db_url = "set"
          /\ \E ok \in BOOLEAN :
                /\ conn' = IF ok THEN "open" ELSE "None"
                /\ log' = Append(log, Event("connect", 0, IF ok THEN "ok" ELSE "raise", {}))
    /\ cur' = "None"
    /\ pc' = "if_conn"
    /\ UNCHANGED <<runs, table, db_url, articles, idx, title, url, source, article_body,
                   class_res, processed_count, inserted_count, store, txRows,
                   txFailed, uncaught, exitCode>>

\* script_aborted without the 'if conn' test and the exit: the run goes on.
script_aborted_goes_on ==
    /\ pc = "if_conn"
    /\ conn = "None"
    /\ pc' = "discover"
    /\ UNCHANGED <<runs, table, db_url, conn, cur, articles, idx, title, url, source,
                   article_body, class_res, processed_count, inserted_count,
                   store, txRows, txFailed, uncaught, exitCode, log>>

\* Lines 197-199: the else branch of 'if conn', sys.exit(1).
script_aborted ==
    /\ pc = "if_conn"
    /\ conn = "None"
    /\ exitCode' = <<1>>
    /\ pc' = "exited"
    /\ UNCHANGED <<runs, table, db_url, conn, cur, articles, idx, title, url, source,
                   article_body, class_res, processed_count, inserted_count,
                   store, txRows, txFailed, uncaught, log>>

\* Lines 120-123: cur = conn.cursor(), which may raise.
open_cursor ==
    /\ pc = "if_conn"
    /\ conn = "open"
    /\ \E ok \in BOOLEAN :
          /\ cur' = IF ok THEN "open" ELSE "None"
          /\ pc' = IF ok THEN "discover" ELSE "except_critical"
          /\ log' = Append(log, Event("cursor", 0, IF ok THEN "ok" ELSE "raise", {}))
    /\ UNCHANGED <<runs, table, db_url, conn, articles, idx, title, url, source,
                   article_body, class_res, processed_count, inserted_count,
                   store, txRows, txFailed, uncaught, exitCode>>

\* after_discovery with line 132 testing only "'articles' in data".
after_discovery_nolen(response) ==
    IF response.status = 200 /\ response.body # "empty"
    THEN CASE response.body \in {"html", "number"} -> "except_bare"
           [] response.body = "object" -> "finally"
           [] response.body = "articles" -> "for"
    ELSE "finally"

\* after_discovery with conn.commit() and the report dedented out of the
\* 'if response.status_code == 200' statement: a failed call goes on to them.
after_discovery_commit_after(response) ==
    IF response.status = 200 /\ response.body # "empty"
    THEN CASE response.body \in {"html", "number"} -> "except_bare"
           [] response.body = "object" -> "finally"
           [] response.body = "articles" ->
                IF Len(response.articles) > 0 THEN "for" ELSE "finally"
    ELSE "commit"

\* Where control goes from the checks of lines 128-132 on a response.
after_discovery(response) ==
    IF response.status = 200 /\ response.body # "empty"
    THEN CASE response.body \in {"html", "number"} -> "except_bare"
           [] response.body = "object" -> "finally"
           [] response.body = "articles" ->
                IF Len(response.articles) > 0 THEN "for" ELSE "finally"
    ELSE "finally"

\* What the response amounts to: a failed call (non-200, empty or malformed
\* body), a well-formed answer with no articles, or one with articles.
discovery_result(response) ==
    IF response.status = 200 /\ response.body \in {"object", "articles"}
    THEN (IF Len(response.articles) > 0 THEN "articles" ELSE "no_articles")
    ELSE "failed"

\* Lines 126-133, 177-178 and 183-184: the GDELT request and its checks.
discover ==
    /\ pc = "discover"
    /\ \/ /\ pc' = "except_critical"                \* requests.get raises
          /\ log' = Append(log, Event("discover", 0, "raise", {}))
          /\ UNCHANGED articles
       \/ \E response \in DiscoveryResponses :
            /\ pc' = after_discovery(response)
            /\ articles' = IF pc' = "for" THEN response.articles ELSE articles
            /\ log' = Append(log, Event("discover", 0, discovery_result(response), {}))
    /\ UNCHANGED <<runs, table, db_url, conn, cur, idx, title, url, source, article_body,
                   class_res, processed_count, inserted_count, store, txRows,
                   txFailed, uncaught, exitCode>>

\* for_article with conn.commit() inside the loop body: every article after
\* the first starts by committing what the transaction holds.
for_article_commit_inside ==
    /\ pc = "for"
    /\ IF idx < Len(articles)
       THEN /\ idx' = idx + 1
            /\ pc' = "fields"
            /\ store' = IF idx > 0 /\ ~txFailed THEN store \cup txRows ELSE store
            /\ txRows' = IF idx > 0 THEN {} ELSE txRows
            /\ txFailed' = IF idx > 0 THEN FALSE ELSE txFailed
            /\ log' = log \o (IF idx > 0 THEN <<Event("commit", 0, "ok", {})>> ELSE <<>>)
                          \o <<Event("article", idx + 1, "ok", {})>>
       ELSE /\ idx' = idx
            /\ pc' = "commit"
            /\ log' = log
            /\ UNCHANGED <<store, txRows, txFailed>>
    /\ UNCHANGED <<runs, table, db_url, conn, cur, articles, title, url, source,
                   article_body, class_res, processed_count, inserted_count,
                   uncaught, exitCode>>

\* for_article with the counters initialised inside the loop body.
for_article_resets_counters ==
    /\ pc = "for"
    /\ IF idx < Len(articles)
       THEN /\ idx' = idx + 1
            /\ pc' = "fields"
            /\ processed_count' = 0
            /\ inserted_count' = 0
            /\ log' = Append(log, Event("article", idx + 1, "ok", {}))
       ELSE /\ idx' = idx
            /\ pc' = "commit"
            /\ log' = log
            /\ UNCHANGED <<processed_count, inserted_count>>
    /\ UNCHANGED <<runs, table, db_url, conn, cur, articles, title, url, source,
                   article_body, class_res, store, txRows, txFailed,
                   uncaught, exitCode>>

\* Line 135: the for statement takes the next article, or the loop ends.
for_article ==
    /\ pc = "for"
    /\ IF idx < Len(articles)
       THEN /\ idx' = idx + 1
            /\ pc' = "fields"
            /\ log' = Append(log, Event("article", idx + 1, "ok", {}))
       ELSE /\ idx' = idx
            /\ pc' = "commit"
            /\ log' = log
    /\ UNCHANGED <<runs, table, db_url, conn, cur, articles, title, url, source,
                   article_body, class_res, processed_count, inserted_count,
                   store, txRows, txFailed, uncaught, exitCode>>

\* read_fields with the loop written over reversed(data['articles']).
read_fields_reversed ==
    /\ pc = "fields"
    /\ LET article == articles[Len(articles) + 1 - idx]
           has(k) == k \in DOMAIN article
       IN  /\ title' = IF has("title") THEN article["title"] ELSE title
           /\ url' = IF has("title") /\ has("url") THEN article["url"] ELSE url
           /\ source' = IF has("title") /\ has("url") /\ has("domain")
                        THEN article["domain"] ELSE source
           /\ pc' = IF has("title") /\ has("url") /\ has("domain")
                    THEN "scrape" ELSE "except_article"
    /\ UNCHANGED <<runs, table, db_url, conn, cur, articles, idx, article_body, class_res,
                   processed_count, inserted_count, store, txRows, txFailed,
                   uncaught, exitCode, log>>

\* Lines 137-141: title, url and source are read in this order; the first
\* missing key raises KeyError and leaves the later names as they were.
read_fields ==
    /\ pc = "fields"
    /\ LET article == articles[idx]
           has(k) == k \in DOMAIN article
       IN  /\ title' = IF has("title") THEN article["title"] ELSE title
           /\ url' = IF has("title") /\ has("url") THEN article["url"] ELSE url
           /\ source' = IF has("title") /\ has("url") /\ has("domain")
                        THEN article["domain"] ELSE source
           /\ pc' = IF has("title") /\ has("url") /\ has("domain")
                    THEN "scrape" ELSE "except_article"
    /\ UNCHANGED <<runs, table, db_url, conn, cur, articles, idx, article_body, class_res,
                   processed_count, inserted_count, store, txRows, txFailed,
                   uncaught, exitCode, log>>

\* after_scrape with the test written 'if not article_body'.
after_scrape_falsy(body) ==
    IF body = None \/ body = Str(<<>>) THEN "for" ELSE "classify"

\* after_scrape without the test.
after_scrape_no_skip(body) == "classify"

\* Lines 145-149: 'if article_body is None: continue', else go on to classify.
after_scrape(body) == IF body = None THEN "for" ELSE "classify"

\* Lines 143-147: article_body = get_article_text(url); None skips the ref.
scrape ==
    /\ pc = "scrape"
    /\ \E response \in ScrapeResponses :
          /\ article_body' = get_article_text(response)
          /\ pc' = after_scrape(article_body')
          /\ log' = Append(log, Event("scrape", idx,
                        IF article_body' = None THEN "None" ELSE "text", article_body'))
    /\ UNCHANGED <<runs, table, db_url, conn, cur, articles, idx, title, url, source,
                   class_res, processed_count, inserted_count, store, txRows,
                   txFailed, uncaught, exitCode>>

\* Lines 149-150: class_res = classify_text(article_body, "fast").
classify ==
    /\ pc = "classify"
    /\ \E response \in ClassifyResponses :
          /\ class_res' = classify_text(response)
          /\ log' = Append(log, Event("classify", idx,
                        IF class_res' = None THEN "None" ELSE "result", class_res'))
    /\ pc' = "insert"
    /\ UNCHANGED <<runs, table, db_url, conn, cur, articles, idx, title, url, source,
                   article_body, processed_count, inserted_count, store,
                   txRows, txFailed, uncaught, exitCode>>

\* insert with 'processed_count += 1' above cur.execute: a statement that
\* raises is counted too.
insert_counts_attempts ==
    /\ pc = "insert"
    /\ LET class_json == json_dumps(class_res)
           data_tuple == [source_domain |-> source, title |-> title, url |-> url,
                          scraped_text |-> article_body,
                          classification_json |-> class_json]
           visible == store \cup txRows
       IN  \/ /\ ~txFailed
              /\ txRows' = insert_query(visible, data_tuple) \ store
              /\ inserted_count' = IF rowcount(visible, data_tuple) > 0
                                   THEN inserted_count + 1 ELSE inserted_count
              /\ txFailed' = txFailed
              /\ pc' = "for"
              /\ log' = Append(log, Event("insert", idx,
                            IF rowcount(visible, data_tuple) > 0 THEN "new" ELSE "dup",
                            data_tuple))
           \/ /\ txFailed' = TRUE
              /\ pc' = "except_article"
              /\ log' = Append(log, Event("insert", idx, "raise", data_tuple))
              /\ UNCHANGED <<txRows, inserted_count>>
    /\ processed_count' = processed_count + 1
    /\ UNCHANGED <<runs, table, db_url, conn, cur, articles, idx, title, url, source,
                   article_body, class_res, store, uncaught, exitCode>>

\* Lines 152-164: class_json, data_tuple, cur.execute and the counters.
\* The statement raises at once in an aborted transaction, and may raise
\* otherwise, which aborts the transaction.
insert ==
    /\ pc = "insert"
    /\ LET class_json == json_dumps(class_res)
           data_tuple == [source_domain |-> source, title |-> title, url |-> url,
                          scraped_text |-> article_body,
                          classification_json |-> class_json]
           visible == store \cup txRows
       IN  \/ /\ ~txFailed                            \* the statement runs
              /\ txRows' = insert_query(visible, data_tuple) \ store
              /\ processed_count' = processed_count + 1
              /\ inserted_count' = IF rowcount(visible, data_tuple) > 0
                                   THEN inserted_count + 1 ELSE inserted_count
              /\ txFailed' = txFailed
              /\ pc' = "for"
              /\ log' = Append(log, Event("insert", idx,
                            IF rowcount(visible, data_tuple) > 0 THEN "new" ELSE "dup",
                            data_tuple))
           \/ /\ txFailed' = TRUE                       \* the statement raises
              /\ pc' = "except_article"
              /\ log' = Append(log, Event("insert", idx, "raise", data_tuple))
              /\ UNCHANGED <<txRows, processed_count, inserted_count>>
    /\ UNCHANGED <<runs, table, db_url, conn, cur, articles, idx, title, url, source,
                   article_body, class_res, store, uncaught, exitCode>>

\* Lines 166-168: the per-article handler. Its message reads url, which
\* raises NameError when no article has bound it yet.
except_article ==
    /\ pc = "except_article"
    /\ pc' = IF url = Unbound THEN "except_bare" ELSE "for"
    /\ UNCHANGED <<runs, table, db_url, conn, cur, articles, idx, title, url, source,
                   article_body, class_res, processed_count, inserted_count,
                   store, txRows, txFailed, uncaught, exitCode, log>>

\* commit with the report of lines 174-175 printed above conn.commit().
commit_after_report ==
    /\ pc = "commit"
    /\ \/ /\ store' = IF txFailed THEN store ELSE store \cup txRows
          /\ txRows' = {}
          /\ txFailed' = FALSE
          /\ pc' = "finally"
          /\ log' = log \o <<Event("report", 0, "ok", <<processed_count, inserted_count>>),
                             Event("commit", 0, "ok", {})>>
       \/ /\ pc' = "except_bare"
          /\ log' = log \o <<Event("report", 0, "ok", <<processed_count, inserted_count>>),
                             Event("commit", 0, "raise", {})>>
          /\ UNCHANGED <<store, txRows, txFailed>>
    /\ UNCHANGED <<runs, table, db_url, conn, cur, articles, idx, title, url, source,
                   article_body, class_res, processed_count, inserted_count,
                   uncaught, exitCode>>

\* Lines 170-172: conn.commit(). Committing an aborted transaction rolls it
\* back; the call itself may raise.
commit ==
    /\ pc = "commit"
    /\ \/ /\ store' = IF txFailed THEN store ELSE store \cup txRows
          /\ txRows' = {}
          /\ txFailed' = FALSE
          /\ pc' = "report"
          /\ log' = Append(log, Event("commit", 0, "ok", {}))
       \/ /\ pc' = "except_bare"
          /\ log' = Append(log, Event("commit", 0, "raise", {}))
          /\ UNCHANGED <<store, txRows, txFailed>>
    /\ UNCHANGED <<runs, table, db_url, conn, cur, articles, idx, title, url, source,
                   article_body, class_res, processed_count, inserted_count,
                   uncaught, exitCode>>

\* Lines 174-175: the success report.
report ==
    /\ pc = "report"
    /\ log' = Append(log, Event("report", 0, "ok", <<processed_count, inserted_count>>))
    /\ pc' = "finally"
    /\ UNCHANGED <<runs, table, db_url, conn, cur, articles, idx, title, url, source,
                   article_body, class_res, processed_count, inserted_count,
                   store, txRows, txFailed, uncaught, exitCode>>

\* Lines 180-181: the bare except of the inner try prints and goes on.
except_bare ==
    /\ pc = "except_bare"
    /\ pc' = "finally"
    /\ UNCHANGED <<runs, table, db_url, conn, cur, articles, idx, title, url, source,
                   article_body, class_res, processed_count, inserted_count,
                   store, txRows, txFailed, uncaught, exitCode, log>>

\* Lines 186-189: the outer handler calls conn.rollback(), which may raise.
except_critical ==
    /\ pc = "except_critical"
    /\ \/ /\ txRows' = {}
          /\ txFailed' = FALSE
          /\ uncaught' = uncaught
          /\ log' = Append(log, Event("rollback", 0, "ok", {}))
       \/ /\ uncaught' = TRUE
          /\ log' = Append(log, Event("rollback", 0, "raise", {}))
          /\ UNCHANGED <<txRows, txFailed>>
    /\ pc' = "finally"
    /\ UNCHANGED <<runs, table, db_url, conn, cur, articles, idx, title, url, source,
                   article_body, class_res, processed_count, inserted_count,
                   store, exitCode>>

\* finally with conn.close() nested under 'if cur'.
finally_nested ==
    /\ pc = "finally"
    /\ cur' = IF cur # "None" THEN "closed" ELSE cur
    /\ conn' = IF cur # "None" THEN "closed" ELSE conn
    /\ txRows' = {}
    /\ txFailed' = FALSE
    /\ log' = log \o (IF cur # "None"
                       THEN <<Event("cur_close", 0, "ok", {}), Event("conn_close", 0, "ok", {})>>
                       ELSE <<>>)
    /\ pc' = "end"
    /\ UNCHANGED <<runs, table, db_url, articles, idx, title, url, source, article_body,
                   class_res, processed_count, inserted_count, store,
                   uncaught, exitCode>>

\* Lines 191-196: cur.close() if there is a cursor, then conn.close(), which
\* discards whatever the transaction has not committed.
finally ==
    /\ pc = "finally"
    /\ cur' = IF cur # "None" THEN "closed" ELSE cur
    /\ conn' = "closed"
    /\ txRows' = {}
    /\ txFailed' = FALSE
    /\ log' = log \o (IF cur # "None" THEN <<Event("cur_close", 0, "ok", {})>> ELSE <<>>)
                  \o <<Event("conn_close", 0, "ok", {})>>
    /\ pc' = "end"
    /\ UNCHANGED <<runs, table, db_url, articles, idx, title, url, source, article_body,
                   class_res, processed_count, inserted_count, store,
                   uncaught, exitCode>>

\* The end of the script: exit code 0, or 1 when an exception is uncaught.
exit ==
    /\ pc = "end"
    /\ exitCode' = IF uncaught THEN <<1>> ELSE <<0>>
    /\ pc' = "exited"
    /\ UNCHANGED <<runs, table, db_url, conn, cur, articles, idx, title, url, source,
                   article_body, class_res, processed_count, inserted_count,
                   store, txRows, txFailed, uncaught, log>>

Next ==
    \/ get_db_connection
    \/ script_aborted
    \/ open_cursor
    \/ discover
    \/ for_article
    \/ read_fields
    \/ scrape
    \/ classify
    \/ insert
    \/ except_article
    \/ commit
    \/ report
    \/ except_bare
    \/ except_critical
    \/ finally
    \/ exit

Spec == Init /\ [][Next]_vars

-----------------------------------------------------------------------------
(* Two runs of the script at once, as two processes against one store.     *)
(* Each run is taken at its store calls: the cur.execute of every ref that *)
(* reached line 155, in list order, then conn.commit(), then conn.close(). *)

Procs == {1, 2}

\* The urls a run inserts, in order.
UrlLists == UNION {[1..n -> Urls] : n \in 1..MaxArticles}

\* The data_tuple of run p for url u; the runs scraped different texts.
RunRow(p, u) ==
    [source_domain |-> "cnn.com", title |-> "headline", url |-> u,
     scraped_text |-> Str(IF p = 1 THEN <<"a">> ELSE <<"b">>),
     classification_json |-> json_dumps(None)]

\* The statement of run p waits: another open transaction holds an
\* uncommitted row with the url, so the store cannot yet decide the conflict.
blocked(p) ==
    /\ runs[p].pc = "loop"
    /\ runs[p].next <= Len(runs[p].list)
    /\ ~runs[p].failed
    /\ LET u == runs[p].list[runs[p].next]
       IN  /\ ~\E r \in table \cup runs[p].tx : r.url = u
           /\ \E q \in Procs \ {p} : \E r \in runs[q].tx : r.url = u

InitConcurrent ==
    /\ InitRun
    /\ db_url = "set"
    /\ store = {}
    /\ table \in {{}, {OldRow("u1")}}
    /\ runs \in [Procs -> {[list |-> l, next |-> 1, pc |-> "loop", tx |-> {},
                             failed |-> FALSE, outcome |-> "open"] : l \in UrlLists}]

\* Lines 155-168 in run p: cur.execute(insert_query, data_tuple). In an
\* aborted transaction it raises; otherwise it runs, or raises and aborts the
\* transaction, whose rows are dropped at once. The handler goes on.
execute_insert(p) ==
    /\ runs[p].pc = "loop"
    /\ runs[p].next <= Len(runs[p].list)
    /\ ~blocked(p)
    /\ LET data_tuple == RunRow(p, runs[p].list[runs[p].next])
           visible == table \cup runs[p].tx
       IN  \/ /\ ~runs[p].failed
              /\ runs' = [runs EXCEPT ![p].tx = insert_query(visible, data_tuple) \ table,
                                      ![p].next = @ + 1]
           \/ runs' = [runs EXCEPT ![p].failed = TRUE, ![p].tx = {}, ![p].next = @ + 1]
    /\ UNCHANGED <<table, pc, db_url, conn, cur, articles, idx, title, url, source,
                   article_body, class_res, processed_count, inserted_count,
                   store, txRows, txFailed, uncaught, exitCode, log>>

\* Lines 155-168 in run p when both runs wait for each other: the store ends
\* the deadlock by making the statement of one of them raise.
execute_deadlock(p) ==
    /\ \A q \in Procs : blocked(q)
    /\ runs' = [runs EXCEPT ![p].failed = TRUE, ![p].tx = {}, ![p].next = @ + 1]
    /\ UNCHANGED <<table, pc, db_url, conn, cur, articles, idx, title, url, source,
                   article_body, class_res, processed_count, inserted_count,
                   store, txRows, txFailed, uncaught, exitCode, log>>

\* Lines 170-172 in run p: conn.commit() after the loop; it persists the rows
\* of a transaction that is not aborted, or raises.
commit_run(p) ==
    /\ runs[p].pc = "loop"
    /\ runs[p].next > Len(runs[p].list)
    /\ \/ /\ table' = IF runs[p].failed THEN table ELSE table \cup runs[p].tx
          /\ runs' = [runs EXCEPT ![p].tx = {}, ![p].pc = "finally",
                                  ![p].outcome = IF runs[p].failed THEN "rolled_back"
                                                 ELSE "committed"]
       \/ /\ table' = table
          /\ runs' = [runs EXCEPT ![p].pc = "finally"]
    /\ UNCHANGED <<pc, db_url, conn, cur, articles, idx, title, url, source,
                   article_body, class_res, processed_count, inserted_count,
                   store, txRows, txFailed, uncaught, exitCode, log>>

\* Lines 191-196 in run p: conn.close() drops what is not committed.
close_run(p) ==
    /\ runs[p].pc = "finally"
    /\ runs' = [runs EXCEPT ![p].tx = {}, ![p].pc = "closed",
                            ![p].outcome = IF @ = "open" THEN "rolled_back" ELSE @]
    /\ UNCHANGED <<table, pc, db_url, conn, cur, articles, idx, title, url, source,
                   article_body, class_res, processed_count, inserted_count,
                   store, txRows, txFailed, uncaught, exitCode, log>>

NextConcurrent ==
    \/ \E p \in Procs : execute_insert(p)
    \/ \E p \in Procs : execute_deadlock(p)
    \/ \E p \in Procs : commit_run(p)
    \/ \E p \in Procs : close_run(p)

SpecConcurrent == InitConcurrent /\ [][NextConcurrent]_vars

-----------------------------------------------------------------------------
(* What the log says about a run *)

Raised(op) == \E k \in Ops(op) : log[k].res = "raise"
Connected == \E k \in Ops("connect") : log[k].res = "ok"
Discovered(res) == \E k \in Ops("discover") : log[k].res = res
Finished == pc = "exited"

\* The indices of the refs on which op was called, and with result res.
Refs(op) == {log[k].i : k \in Ops(op)}
RefsWith(op, res) == {log[k].i : k \in {j \in Ops(op) : log[j].res = res}}

\* The rows the run's inserts reported as new.
NewRows == {log[k].val : k \in {j \in Ops("insert") : log[j].res = "new"}}

-----------------------------------------------------------------------------
(* Properties *)

\* C1: per-item isolation. Whatever exception one ref raises, at any position
\* of the list, the loop goes on: a run that entered the loop attempts every
\* ref of the list and reaches the commit call.
C1_PerItemIsolation ==
    (Finished /\ Len(articles) > 0) =>
        /\ Refs("article") = 1..Len(articles)
        /\ Count("commit") = 1

\* C2: when an exception surfaces outside the per-item handler with the
\* connection open (conn.cursor(), the discovery request or conn.commit()
\* raises), rollback is called before the connection is closed and the run
\* prints no success report.
C2_RollbackOnOuterException ==
    (pc \in {"end", "exited"} /\ (Raised("cursor") \/ Raised("discover") \/ Raised("commit"))) =>
        /\ \E r \in Ops("rollback") : \E c \in Ops("conn_close") : r < c
        /\ Count("report") = 0

\* C3 as claimed: a discovery that succeeds with zero articles ends in a
\* commit, a report of processed = 0 and inserted = 0, and exit code 0.
C3_ZeroArticlesCommits ==
    (Finished /\ Discovered("no_articles")) =>
        /\ Count("commit") = 1
        /\ \E k \in Ops("report") : log[k].val = <<0, 0>>
        /\ exitCode = <<0>>

\* C3 as amended: a discovery that succeeds with zero articles is a normal
\* end: no commit, no rollback and no report are made, both counters are 0,
\* nothing is added to the store, the connection is closed, exit code 0.
C3_ZeroArticlesNormalEnd ==
    (Finished /\ Discovered("no_articles")) =>
        /\ Count("commit") = 0
        /\ Count("rollback") = 0
        /\ Count("report") = 0
        /\ Refs("article") = {}
        /\ processed_count = 0 /\ inserted_count = 0
        /\ conn = "closed"
        /\ exitCode = <<0>>

C3_Witness == Finished /\ Discovered("no_articles") /\ exitCode = <<0>>

\* C4: while the store connection has not been opened (DATABASE_URL unset or
\* connect raised), no discovery, scrape or classification call is made, and
\* the process then exits with a nonzero code.
C4_NoWorkWithoutConnection ==
    ~Connected =>
        /\ Count("discover") = 0 /\ Count("scrape") = 0 /\ Count("classify") = 0
        /\ pc \in {"get_db_connection", "if_conn", "exited"}
        /\ Finished => (exitCode # <<>> /\ exitCode # <<0>>)

C4_Witness == Finished /\ ~Connected /\ db_url = "set" /\ Raised("connect")

\* C5: all-or-nothing. When the run has ended, the rows its inserts reported
\* as new are either all in the store, the commit having succeeded, or none
\* of them is.
C5_AllOrNothing ==
    Finished =>
        \/ NewRows \cap store = {}
        \/ NewRows \subseteq store /\ (\E k \in Ops("commit") : log[k].res = "ok")

C5_Witness ==
    /\ Finished
    /\ Cardinality(NewRows) = 2
    /\ NewRows \subseteq store
    /\ RefsWith("scrape", "None") = {}

\* The other side of C5: a run whose inserts reported new rows and that ended
\* with none of them in the store.
C5_WitnessNone == Finished /\ NewRows # {} /\ NewRows \cap store = {} /\ Raised("commit")

\* C6: commit is called at most once, after every ref of the list has been
\* attempted and with no scrape, classification or insert after it, and never
\* in a run in which the connection, the cursor or discovery failed.
C6_CommitOnceAfterLoop ==
    /\ Count("commit") <= 1
    /\ \A c \in Ops("commit") :
         /\ \A i \in 1..Len(articles) : \E k \in Ops("article") : k < c /\ log[k].i = i
         /\ \A k \in 1..Len(log) :
              log[k].op \in {"article", "scrape", "classify", "insert"} => k < c
         /\ ~\E k \in 1..Len(log) :
              log[k].op \in {"connect", "cursor", "discover"} /\ log[k].res \in {"raise", "failed"}

C6_Witness ==
    /\ Finished
    /\ Count("commit") = 1
    /\ Len(articles) = 2
    /\ Raised("insert")
    /\ RefsWith("scrape", "None") # {}

\* C7: once a ref has been dealt with, the inserts attempted are exactly one
\* for each ref whose scrape returned a value other than None; so the number
\* of insert attempts of a run equals the number of such refs.
C7_InsertPerScrapedRef ==
    pc \notin {"classify", "insert"} =>
        /\ Refs("insert") = RefsWith("scrape", "text")
        /\ Count("insert") = Cardinality(RefsWith("scrape", "text"))

C7_Witness ==
    /\ Finished
    /\ Count("insert") = 1
    /\ Count("scrape") = 2
    /\ \E k \in Ops("scrape") : log[k].val = Str(<<>>)

\* C8: a ref whose scrape returned None gets no classification call and no
\* insert, no row of the store or the transaction comes from anything but an
\* insert that reported a new row, and the loop goes on to the next ref.
C8_ScrapeAbsentSkips ==
    /\ \A i \in RefsWith("scrape", "None") :
         /\ i \notin Refs("classify")
         /\ i \notin Refs("insert")
         /\ (Finished /\ i < Len(articles)) => (i + 1) \in Refs("article")
    /\ \A r \in store \cup txRows : r.title # "old" => r \in NewRows
    /\ \A r \in NewRows : r.scraped_text # None

C8_Witness ==
    /\ Finished
    /\ 1 \in RefsWith("scrape", "None")
    /\ 2 \in RefsWith("insert", "new")
    /\ NewRows \subseteq store

\* C9: a ref whose scrape succeeded and whose classification returned None is
\* still inserted, with a scraped_text that is not None and the JSON text
\* null as classification_json; no ref whose classification returned a value
\* is inserted with that text, the JSON string "null" included.
C9_ClassificationAbsentStored ==
    /\ \A i \in RefsWith("classify", "None") :
         \/ pc = "insert" /\ idx = i
         \/ \E k \in Ops("insert") :
              /\ log[k].i = i
              /\ log[k].val.scraped_text # None
              /\ log[k].val.classification_json = "null"
              /\ (log[k].res = "new" /\ pc \notin {"end", "exited"} /\ Count("commit") = 0
                    /\ Count("rollback") = 0)
                   => log[k].val \in txRows
    /\ \A i \in RefsWith("classify", "result") :
         \A k \in Ops("insert") : log[k].i = i => log[k].val.classification_json # "null"

C9_Witness ==
    /\ Finished
    /\ \E k \in Ops("insert") :
         /\ log[k].i \in RefsWith("classify", "None")
         /\ log[k].res = "new"
         /\ log[k].val \in store
    /\ \E k \in Ops("classify") : log[k].val = Str("null")

\* C10: in a run that opened the connection, the connection and the cursor
\* are closed exactly once by the time the run ends, whichever way it ends,
\* never more than once, and no store call follows the close.
C10_ReleasedExactlyOnce ==
    /\ Count("conn_close") <= 1
    /\ Count("cur_close") <= 1
    /\ \A c \in Ops("conn_close") \cup Ops("cur_close") :
         \A k \in 1..Len(log) :
             log[k].op \in {"cursor", "insert", "commit", "rollback"} => k < c
    /\ (Finished /\ Connected) =>
         /\ Count("conn_close") = 1 /\ conn = "closed"
         /\ RefsWith("cursor", "ok") # {} => (Count("cur_close") = 1 /\ cur = "closed")

C10_Witness ==
    /\ Finished
    /\ Connected
    /\ Raised("cursor")
    /\ Count("rollback") = 1
    /\ Count("conn_close") = 1

\* C11: when the discovery call fails (non-200 status, empty body, or a body
\* that is not JSON or not a JSON container), no ref is taken, no scrape,
\* classification or insert is made, commit is never called, and the run
\* ends with the connection closed.
C11_DiscoveryFailureAborts ==
    Discovered("failed") =>
        /\ Refs("article") = {}
        /\ Count("scrape") = 0 /\ Count("classify") = 0 /\ Count("insert") = 0
        /\ Count("commit") = 0
        /\ Finished => (Count("conn_close") = 1 /\ conn = "closed" /\ cur = "closed")

C11_Witness == Finished /\ Discovered("failed") /\ conn = "closed"

\* C12: idempotent insert. Of two executed inserts with the same url the
\* later one reports no new row, and so does an insert of a url that a row of
\* an earlier run holds; the store and the transaction together never hold
\* two rows with one url; and every row they hold is the row of an earlier
\* run, untouched, or the row of the insert that reported it new.
C12_IdempotentInsert ==
    /\ \A k, m \in Ops("insert") :
         (k < m /\ log[k].val.url = log[m].val.url
                /\ log[k].res # "raise" /\ log[m].res # "raise") => log[m].res = "dup"
    /\ \A m \in Ops("insert") :
         (log[m].res # "raise" /\ \E r \in store : r.title = "old" /\ r.url = log[m].val.url)
            => log[m].res = "dup"
    /\ \A m \in Ops("insert") :
         (/\ log[m].res # "raise"
          /\ ~\E r \in store : r.title = "old" /\ r.url = log[m].val.url
          /\ ~\E k \in Ops("insert") :
                k < m /\ log[k].res # "raise" /\ log[k].val.url = log[m].val.url)
            => log[m].res = "new"
    /\ \A r1, r2 \in store \cup txRows : r1.url = r2.url => r1 = r2
    /\ \A r \in store \cup txRows : r = OldRow(r.url) \/ r \in NewRows

\* Two inserts of one url with different contents: one row, the first one's.
C12_Witness ==
    /\ Finished
    /\ \E k, m \in Ops("insert") :
         /\ k < m
         /\ log[k].val.url = log[m].val.url
         /\ log[k].val # log[m].val
         /\ log[k].res = "new" /\ log[m].res = "dup"
         /\ {r \in store : r.url = log[k].val.url} = {log[k].val}

\* The same against a row of an earlier run.
C12_WitnessOld ==
    /\ Finished
    /\ OldRow("u1") \in store
    /\ \E m \in Ops("insert") : log[m].val.url = "u1" /\ log[m].res = "dup"
    /\ Count("commit") = 1

\* The refs whose insert statement ran without raising.
Executed == RefsWith("insert", "new") \cup RefsWith("insert", "dup")

\* C14: processed_count is the number of refs whose insert ran without error
\* and inserted_count the number of those that reported a new row; the report
\* prints these two numbers. With two refs, one scraped and new, the other
\* failing to scrape, the report is processed = 1, inserted = 1, and the
\* failed ref has no insert.
C14_CounterSemantics ==
    /\ processed_count = Cardinality(Executed)
    /\ inserted_count = Cardinality(RefsWith("insert", "new"))
    /\ \A k \in Ops("report") :
         /\ log[k].val = <<Cardinality(Executed), Cardinality(RefsWith("insert", "new"))>>
         /\ (/\ Len(articles) = 2
             /\ Cardinality(RefsWith("scrape", "None")) = 1
             /\ Cardinality(RefsWith("insert", "new")) = 1)
              => /\ log[k].val = <<1, 1>>
                 /\ RefsWith("scrape", "None") \cap Refs("insert") = {}
                 /\ Cardinality(NewRows) = 1

C14_Witness ==
    /\ Finished
    /\ Len(articles) = 2
    /\ 1 \in RefsWith("scrape", "None")
    /\ 2 \in RefsWith("insert", "new")
    /\ \E k \in Ops("report") : log[k].val = <<1, 1>>

\* A run in which one insert raised and one was a duplicate.
C14_WitnessMixed ==
    /\ Finished
    /\ Raised("insert")
    /\ RefsWith("insert", "dup") # {}
    /\ processed_count = 1 /\ inserted_count = 0

\* C15: a failed discovery call ends the process with a nonzero exit code, as
\* failed store connection does; a run that made the discovery call exits
\* with code 0 only if it committed and reported, or found no articles.
C15_DiscoveryFailureSignalled ==
    Finished =>
        /\ ~Connected => (exitCode # <<>> /\ exitCode # <<0>>)
        /\ (Discovered("failed") \/ Raised("discover")) => (exitCode # <<>> /\ exitCode # <<0>>)
        /\ (exitCode = <<0>> /\ Count("discover") > 0) =>
             \/ Discovered("no_articles")
             \/ Discovered("articles") /\ Count("report") = 1

\* C16: a page with no <p> element scrapes to the empty string, not to None;
\* a ref whose scrape returned the empty string is classified and inserted
\* with that empty text, and counted in processed_count when the statement
\* ran; a ref whose scrape returned None is neither classified nor inserted.
C16_EmptyTextIsNotAbsent ==
    /\ get_article_text([status |-> 200, paragraphs |-> <<>>]) = Str(<<>>)
    /\ \A k \in Ops("scrape") :
         LET i == log[k].i IN
         /\ log[k].val = Str(<<>>) =>
              /\ pc # "for" \/ idx # i \/ i \in Refs("insert")
              /\ (idx > i \/ pc \notin {"classify", "insert"}) =>
                   /\ i \in Refs("classify")
                   /\ \E m \in Ops("insert") :
                        log[m].i = i /\ log[m].val.scraped_text = Str(<<>>)
                   /\ i \in Executed => processed_count >= 1
         /\ log[k].val = None => (i \notin Refs("classify") /\ i \notin Refs("insert"))
    /\ processed_count >= Cardinality({i \in Executed :
           \E k \in Ops("scrape") : log[k].i = i /\ log[k].val = Str(<<>>)})

C16_Witness ==
    /\ Finished
    /\ \E m \in Ops("insert") :
         /\ log[m].val.scraped_text = Str(<<>>)
         /\ log[m].res = "new"
         /\ log[m].val \in store
    /\ RefsWith("scrape", "None") # {}
    /\ processed_count = 1

\* The per-ref steps in the log.
Steps == {k \in 1..Len(log) : log[k].op \in {"article", "scrape", "classify", "insert"}}

\* C17: refs are handled one at a time in the order of the list: the steps
\* in the log never go back to an earlier ref, no step is made twice for one
\* ref, the refs taken so far are the first idx of the list, and every insert
\* carries the url of the ref at its position.
C17_SequentialInOrder ==
    /\ \A k, m \in Steps : k < m => log[k].i <= log[m].i
    /\ \A k, m \in Steps : (k # m /\ log[k].op = log[m].op) => log[k].i # log[m].i
    /\ Refs("article") = 1..idx
    /\ idx <= Len(articles)
    /\ \A k \in Steps : log[k].i \in Refs("article")
    /\ \A k \in Ops("insert") :
         /\ "url" \in DOMAIN articles[log[k].i]
         /\ log[k].val.url = articles[log[k].i]["url"]

C17_Witness ==
    /\ Finished
    /\ Len(articles) = 2
    /\ Refs("insert") = {1, 2}
    /\ Refs("classify") = {1, 2}
    /\ articles[1]["url"] # articles[2]["url"]

\* C18: when the run has committed and printed its report, the rows it added
\* to the store are as many as the inserted count it printed.
C18_ReportMatchesStore ==
    \A k \in Ops("report") :
        Cardinality({r \in store : r # OldRow(r.url)}) = log[k].val[2]

\* C19: the report is printed only after a commit call that returned, and no
\* run has both a commit call that returned and a rollback call.
C19_ReportOnlyAfterCommit ==
    /\ \A r \in Ops("report") : \E c \in Ops("commit") : c < r /\ log[c].res = "ok"
    /\ ~((\E c \in Ops("commit") : log[c].res = "ok") /\ Count("rollback") > 0)
    /\ Count("report") <= 1

C19_Witness == Finished /\ Count("report") = 1 /\ NewRows # {} /\ NewRows \subseteq store

\* A run whose commit call raised: no report.
C19_WitnessNoReport == Finished /\ Raised("commit") /\ Count("report") = 0

\* C20: at every moment 0 <= inserted_count <= processed_count <= refs taken
\* so far <= refs in the list, and no step lowers either counter.
C20_CounterInvariant ==
    /\ [](/\ 0 <= inserted_count
          /\ inserted_count <= processed_count
          /\ processed_count <= idx
          /\ idx <= Len(articles))
    /\ [][processed_count' >= processed_count /\ inserted_count' >= inserted_count]_vars

C20_Witness == inserted_count = 1 /\ processed_count = 2 /\ idx = 2 /\ pc = "for"

\* C13: two runs at once, each in its own transaction, against one store.
\* In every interleaving the store never holds two rows with one url, nor do
\* the store and the open transactions together; and when both runs are
\* closed, every url that a run whose transaction committed has inserted has
\* exactly one row in the store.
C13_ConcurrentRunsConverge ==
    /\ \A r1, r2 \in table : r1.url = r2.url => r1 = r2
    /\ \A r1, r2 \in table \cup UNION {runs[p].tx : p \in Procs} :
         r1.url = r2.url => r1 = r2
    /\ (\A p \in Procs : runs[p].pc = "closed") =>
         \A p \in Procs : \A k \in 1..Len(runs[p].list) :
             runs[p].outcome = "committed" =>
                 Cardinality({r \in table : r.url = runs[p].list[k]}) = 1

\* Both runs insert u2, in opposite orders with u1; both have ended and at
\* least one committed.
C13_Witness ==
    /\ \A p \in Procs : runs[p].pc = "closed"
    /\ runs[1].list = <<"u2", "u1">> /\ runs[2].list = <<"u1", "u2">>
    /\ \E p \in Procs : runs[p].outcome = "committed"
    /\ \E p \in Procs : runs[p].failed
    /\ Cardinality({r \in table : r.url = "u2"}) = 1

\* Both runs insert the same new url and both commit: one row.
C13_WitnessBothCommit ==
    /\ \A p \in Procs : runs[p].pc = "closed" /\ runs[p].outcome = "committed"
    /\ runs[1].list = <<"u2">> /\ runs[2].list = <<"u2">>
    /\ table = {RunRow(2, "u2")}

====
